---- MODULE Spec2Model ----
(***************************************************************************)
(* TreeSong: the in-memory song collection (SongCollection), its derived   *)
(* connection map and the genre matcher (GenreRelationship).               *)
(*                                                                         *)
(* A JavaScript string is modelled as the sequence of its characters, a    *)
(* string[] as a sequence of such strings, a Map<string, Song> as the      *)
(* sequence of its values in insertion order (the order Map iteration and  *)
(* allSongs expose), a Set<string> as the duplicate-free sequence of its   *)
(* members in insertion order, and Map<string, Set<string>> as a function  *)
(* whose domain is the set of keys.  A Song is reduced to the two fields   *)
(* the collection reads, id and genres.                                    *)
(***************************************************************************)
EXTENDS Integers, Sequences, FiniteSets, TLC

\* ------------------------------------------------------------------ bounds
NumIds == 3
NumGenreLists == 3

\* ---------------------------------------------------- inputs of the model
IdTable == <<"s1", "s2", "s3", "s4", "s5">>
Ids == {IdTable[i] : i \in 1..NumIds}

Jazz == <<"j", "a", "z", "z">>
Metal == <<"m", "e", "t", "a", "l">>
Rock == <<"r", "o", "c", "k">>
RockCaps == <<"R", "O", "C", "K">>
IndieRock == <<"i", "n", "d", "i", "e", " ", "r", "o", "c", "k">>

GenreListTable ==
    << <<IndieRock>>, <<Rock>>, <<Metal>>, <<Jazz>>, <<Jazz, RockCaps>>,
       <<>>, << <<>> >> >>
GenreLists == {GenreListTable[i] : i \in 1..NumGenreLists}

Songs == [id : Ids, genres : GenreLists]

\* --------------------------------------------------------- JS primitives
\* String.prototype.toLowerCase on the characters the inputs use
toLowerChar(ch) ==
    CASE ch = "R" -> "r"
      [] ch = "O" -> "o"
      [] ch = "C" -> "c"
      [] ch = "K" -> "k"
      [] OTHER -> ch

toLowerCase(str) == [i \in 1..Len(str) |-> toLowerChar(str[i])]

\* String.prototype.includes: sub occurs in str as a contiguous substring
includes(str, sub) ==
    \E i \in 0..(Len(str) - Len(sub)) : SubSeq(str, i + 1, i + Len(sub)) = sub

\* Array.prototype.some over a sequence
SeqToSet(seq) == {seq[i] : i \in 1..Len(seq)}

\* Set.prototype.has / add / delete on an insertion-ordered set
SetHas(set, x) == x \in SeqToSet(set)
SetAdd(set, x) == IF SetHas(set, x) THEN set ELSE Append(set, x)
SetDelete(set, x) == SelectSeq(set, LAMBDA e : e # x)

\* Map.prototype.has / get / set / delete on the songs map
MapHas(map, id) == \E i \in 1..Len(map) : map[i].id = id
MapGet(map, id) == map[CHOOSE i \in 1..Len(map) : map[i].id = id]
MapSet(map, song) ==
    IF MapHas(map, song.id)
    THEN [i \in 1..Len(map) |-> IF map[i].id = song.id THEN song ELSE map[i]]
    ELSE Append(map, song)
MapDelete(map, id) == SelectSeq(map, LAMBDA s : s.id # id)

\* ------------------------------------------------------ GenreRelationship
hasMatch_exact(genre1, genre2) == toLowerCase(genre1) = toLowerCase(genre2)

hasMatch(genre1, genre2) ==
    LET words1 == toLowerCase(genre1)
        words2 == toLowerCase(genre2)
    IN  includes(words1, words2) \/ includes(words2, words1)

areCompatible(genres1, genres2) ==
    \E i \in 1..Len(genres1) :
        \E j \in 1..Len(genres2) : hasMatch(genres1[i], genres2[j])

\* areCompatible on every pair of genre lists the input songs carry,
\* evaluated once
CompatibleLists ==
    {p \in GenreLists \X GenreLists : areCompatible(p[1], p[2])}

\* ---------------------------------------------------------- SongCollection
\* this.genreService.areCompatible as the collection calls it on two songs
genreService_areCompatible(genres1, genres2) ==
    <<genres1, genres2>> \in CompatibleLists

VARIABLES songs, connections, lastOp, returned, exported

\* the layout service: its isCalculating signal, the arguments and the outcome
\* of the call under study, and the animated runs waiting for a frame
VARIABLES isCalculating, layoutIn, layoutCall, runs
\* the genre service: the two genre lists under study and what it answered
VARIABLES genreIn, genreOut
collectionVars == <<songs, connections, lastOp, returned, exported>>
layoutVars == <<isCalculating, layoutIn, layoutCall, runs>>
genreVars == <<genreIn, genreOut>>
\* the catalog: the token state of the authentication service, the clock,
\* the number of token requests sent and the searchTracks subscription
VARIABLES tokenState, now, tokenRequests, search
\* the forceRefresh() calls made and the token requests of them in flight
VARIABLES refreshes
apiVars == <<tokenState, now, tokenRequests, search, refreshes>>
vars == <<collectionVars, layoutVars, genreVars, apiVars>>

allSongs(songMap) == songMap

songCount(songMap) == Len(songMap)

getSong(songMap, songId) == MapGet(songMap, songId)

areConnected(connMap, songId1, songId2) ==
    IF songId1 \in DOMAIN connMap THEN SetHas(connMap[songId1], songId2) ELSE FALSE

getConnectedSongs(songMap, connMap, songId) ==
    IF songId \notin DOMAIN connMap
    THEN <<>>
    ELSE LET connectedIds == SelectSeq(connMap[songId], LAMBDA id : MapHas(songMap, id))
         IN  [i \in 1..Len(connectedIds) |-> getSong(songMap, connectedIds[i])]

addConnection_dropped(connMap, fromId, toId) == connMap

addConnection(connMap, fromId, toId) ==
    LET existing == IF fromId \in DOMAIN connMap THEN connMap[fromId] ELSE <<>>
    IN  [k \in DOMAIN connMap \cup {fromId} |->
            IF k = fromId THEN SetAdd(existing, toId) ELSE connMap[k]]

\* the callback of allSongs().forEach in updateConnectionsForSong; acc carries
\* the connection map and the local newConnections set
forEachExisting_noSkip(acc, newSong, existingSong) ==
    IF genreService_areCompatible(newSong.genres, existingSong.genres)
    THEN [connections |-> addConnection(acc.connections, existingSong.id, newSong.id),
          newConnections |-> SetAdd(acc.newConnections, existingSong.id)]
    ELSE acc

forEachExisting_noCheck(acc, newSong, existingSong) ==
    IF existingSong.id = newSong.id
    THEN acc
    ELSE [connections |-> addConnection(acc.connections, existingSong.id, newSong.id),
          newConnections |-> SetAdd(acc.newConnections, existingSong.id)]

forEachExisting(acc, newSong, existingSong) ==
    IF existingSong.id = newSong.id
    THEN acc
    ELSE IF genreService_areCompatible(newSong.genres, existingSong.genres)
         THEN [connections |-> addConnection(acc.connections, existingSong.id, newSong.id),
               newConnections |-> SetAdd(acc.newConnections, existingSong.id)]
         ELSE acc

RECURSIVE forEachSong_firstMatch(_, _, _, _)
forEachSong_firstMatch(all, i, acc, newSong) ==
    IF i > Len(all) \/ Len(acc.newConnections) > 0
    THEN acc
    ELSE forEachSong_firstMatch(all, i + 1,
                                forEachExisting(acc, newSong, all[i]), newSong)

RECURSIVE forEachSong(_, _, _, _)
forEachSong(all, i, acc, newSong) ==
    IF i > Len(all)
    THEN acc
    ELSE forEachSong(all, i + 1, forEachExisting(acc, newSong, all[i]), newSong)

\* the final connections.update of updateConnectionsForSong
saveNewConnections_freshMap(connMap, newSongId, newConnections) ==
    IF Len(newConnections) > 0
    THEN [k \in {newSongId} |-> newConnections]
    ELSE connMap

saveNewConnections(connMap, newSongId, newConnections) ==
    IF Len(newConnections) > 0
    THEN [k \in DOMAIN connMap \cup {newSongId} |->
             IF k = newSongId THEN newConnections ELSE connMap[k]]
    ELSE connMap

updateConnectionsForSong(songMap, connMap, newSongId) ==
    IF ~MapHas(songMap, newSongId)
    THEN connMap
    ELSE LET newSong == getSong(songMap, newSongId)
             acc == forEachSong(allSongs(songMap), 1,
                                [connections |-> connMap, newConnections |-> <<>>],
                                newSong)
         IN  saveNewConnections(acc.connections, newSongId, acc.newConnections)

removeAllConnectionsForSong_entryOnly(connMap, songId) ==
    [k \in DOMAIN connMap \ {songId} |-> connMap[k]]

removeAllConnectionsForSong_clearSets(connMap, songId) ==
    [k \in DOMAIN connMap \ {songId} |-> <<>>]

removeAllConnectionsForSong(connMap, songId) ==
    [k \in DOMAIN connMap \ {songId} |-> SetDelete(connMap[k], songId)]

\* the mutators return the new songs map, the new connection map and the
\* value the method returns
addSong_overwrite(songMap, connMap, song) ==
    LET newMap == MapSet(songMap, song)
    IN  [songs |-> newMap,
         connections |-> updateConnectionsForSong(newMap, connMap, song.id),
         returned |-> TRUE]

addSong(songMap, connMap, song) ==
    IF MapHas(songMap, song.id)
    THEN [songs |-> songMap, connections |-> connMap, returned |-> FALSE]
    ELSE LET newMap == MapSet(songMap, song)
         IN  [songs |-> newMap,
              connections |-> updateConnectionsForSong(newMap, connMap, song.id),
              returned |-> TRUE]

removeSong_noCheck(songMap, connMap, songId) ==
    [songs |-> MapDelete(songMap, songId),
     connections |-> removeAllConnectionsForSong(connMap, songId),
     returned |-> TRUE]

removeSong(songMap, connMap, songId) ==
    IF ~MapHas(songMap, songId)
    THEN [songs |-> songMap, connections |-> connMap, returned |-> FALSE]
    ELSE [songs |-> MapDelete(songMap, songId),
          connections |-> removeAllConnectionsForSong(connMap, songId),
          returned |-> TRUE]

clearAll(songMap, connMap) ==
    [songs |-> <<>>, connections |-> [k \in {} |-> <<>>]]

exportGraphNodes_connectedOnly(songMap, connMap) ==
    LET all == SelectSeq(allSongs(songMap), LAMBDA s : s.id \in DOMAIN connMap)
    IN  [i \in 1..Len(all) |->
            [id |-> all[i].id, song |-> all[i], x |-> 0, y |-> 0,
             connections |-> connMap[all[i].id]]]

exportGraphNodes(songMap, connMap) ==
    LET all == allSongs(songMap)
    IN  [i \in 1..Len(all) |->
            [id |-> all[i].id,
             song |-> all[i],
             x |-> 0,
             y |-> 0,
             connections |-> IF all[i].id \in DOMAIN connMap
                             THEN connMap[all[i].id]
                             ELSE <<>>]]

\* ------------------------------------------------------------- the machine
\* lastOp records the last call made on the collection and its argument id;
\* returned and exported hold what that call returned
Call(op, id) == [op |-> op, id |-> id]

\* no call made yet
NoCall == [op |-> "none"]

\* the layout service after construction: isCalculating = signal(false)
LayoutConstructed ==
    /\ isCalculating = FALSE
    /\ layoutIn = NoCall
    /\ layoutCall = NoCall
    /\ runs = <<>>

\* the genre service has no state of its own
GenreConstructed ==
    /\ genreIn = NoCall
    /\ genreOut = NoCall

\* the catalog after construction: no token, no request made
ApiConstructed ==
    /\ tokenState = [token |-> 0, expiresAt |-> 0]
    /\ now = 1
    /\ tokenRequests = 0
    /\ search = NoCall
    /\ refreshes = [made |-> 0, pending |-> {}]

\* the collection after construction
CollectionConstructed ==
    /\ songs = <<>>
    /\ connections = [k \in {} |-> <<>>]
    /\ lastOp = Call("new", "")
    /\ returned = FALSE
    /\ exported = <<>>

Init ==
    /\ songs = <<>>
    /\ connections = [k \in {} |-> <<>>]
    /\ lastOp = Call("new", "")
    /\ returned = FALSE
    /\ exported = <<>>
    /\ LayoutConstructed
    /\ GenreConstructed
    /\ ApiConstructed

AddSong ==
    \E song \in Songs :
        LET r == addSong(songs, connections, song)
        IN  /\ songs' = r.songs
            /\ connections' = r.connections
            /\ returned' = r.returned
            /\ lastOp' = Call("addSong", song.id)
            /\ exported' = <<>>
            /\ UNCHANGED <<layoutVars, genreVars, apiVars>>

RemoveSong ==
    \E songId \in Ids :
        LET r == removeSong(songs, connections, songId)
        IN  /\ songs' = r.songs
            /\ connections' = r.connections
            /\ returned' = r.returned
            /\ lastOp' = Call("removeSong", songId)
            /\ exported' = <<>>
            /\ UNCHANGED <<layoutVars, genreVars, apiVars>>

ClearAll ==
    LET r == clearAll(songs, connections)
    IN  /\ songs' = r.songs
        /\ connections' = r.connections
        /\ returned' = FALSE
        /\ lastOp' = Call("clearAll", "")
        /\ exported' = <<>>
        /\ UNCHANGED <<layoutVars, genreVars, apiVars>>

ExportGraphNodes ==
    /\ exported' = exportGraphNodes(songs, connections)
    /\ lastOp' = Call("exportGraphNodes", "")
    /\ returned' = FALSE
    /\ UNCHANGED <<songs, connections, layoutVars, genreVars, apiVars>>

Next == AddSong \/ RemoveSong \/ ClearAll \/ ExportGraphNodes

Spec == Init /\ [][Next]_vars

\* ------------------------------------------------------------- properties
SongIds(songMap) == {songMap[i].id : i \in 1..Len(songMap)}

ConnIds(connMap) ==
    DOMAIN connMap \cup UNION {SeqToSet(connMap[k]) : k \in DOMAIN connMap}

\* the identifiers connected to songId, as areConnected reads them
Neighbours(connMap, songId) ==
    IF songId \in DOMAIN connMap THEN SeqToSet(connMap[songId]) ELSE {}

\* the two maps hold the same connection relation
SameRelation(connMap1, connMap2) ==
    \A k \in DOMAIN connMap1 \cup DOMAIN connMap2 :
        Neighbours(connMap1, k) = Neighbours(connMap2, k)

\* C1: the connection relation is symmetric after every mutation:
\* areConnected(a, b) = areConnected(b, a) for all identifiers a and b.
C1_Symmetric ==
    \A a \in Ids : \A b \in Ids :
        areConnected(connections, a, b) = areConnected(connections, b, a)

C1_Witness ==
    /\ Len(songs) >= 3
    /\ \E a \in Ids : \E b \in Ids \ {a} :
          areConnected(connections, a, b) /\ areConnected(connections, b, a)

\* C2: every identifier in the connection map, as a key or as a member of a
\* connection set, is the identifier of a track in the collection; after a
\* successful removeSong(id) no connection set contains id and
\* getConnectedSongs(id) is empty.
C2_NoDangling ==
    /\ ConnIds(connections) \subseteq SongIds(songs)
    /\ (lastOp.op = "removeSong" /\ returned) =>
          /\ \A k \in DOMAIN connections : ~SetHas(connections[k], lastOp.id)
          /\ getConnectedSongs(songs, connections, lastOp.id) = <<>>

\* two tracks remain, each left with an empty connection set by a removal
C2_Witness ==
    /\ lastOp.op = "removeSong"
    /\ returned
    /\ Len(songs) = 2
    /\ \A i \in 1..2 : songs[i].id \in DOMAIN connections
                          /\ connections[songs[i].id] = <<>>

\* C3: two distinct tracks of the collection are connected exactly when their
\* genre lists are compatible; ["jazz"] and ["metal"] do not connect,
\* ["indie rock"] and ["rock"] do.
C3_ConnectedIffCompatible ==
    \A i \in 1..Len(songs) : \A j \in 1..Len(songs) :
        i # j =>
            /\ areConnected(connections, songs[i].id, songs[j].id)
                  = areCompatible(songs[i].genres, songs[j].genres)
            /\ (songs[i].genres = <<Jazz>> /\ songs[j].genres = <<Metal>>)
                  => ~areConnected(connections, songs[i].id, songs[j].id)
            /\ (songs[i].genres = <<IndieRock>> /\ songs[j].genres \in {<<Rock>>, <<RockCaps>>})
                  => areConnected(connections, songs[i].id, songs[j].id)

\* an "indie rock" track connected to a "rock" track, neither connected to a
\* "metal" track
C3_Witness ==
    \E i, j, k \in 1..Len(songs) :
        /\ songs[i].genres = <<IndieRock>>
        /\ songs[j].genres = <<Rock>>
        /\ songs[k].genres = <<Metal>>
        /\ areConnected(connections, songs[i].id, songs[j].id)
        /\ ~areConnected(connections, songs[i].id, songs[k].id)
        /\ ~areConnected(connections, songs[j].id, songs[k].id)

\* C4: addSong with an identifier already in the collection returns false and
\* leaves the songs map (stored track and size) and the connection map as
\* they were.
C4_DuplicateAddIsNoOp ==
    [][(lastOp'.op = "addSong" /\ MapHas(songs, lastOp'.id)) =>
          /\ returned' = FALSE
          /\ songs' = songs
          /\ songCount(songs') = songCount(songs)
          /\ connections' = connections]_vars

C4_Witness ==
    /\ lastOp.op = "addSong"
    /\ returned = FALSE
    /\ MapHas(songs, lastOp.id)
    /\ lastOp.id \in DOMAIN connections

\* C5: no track is connected to itself.
C5_NoSelfLoop == \A a \in Ids : ~areConnected(connections, a, a)

C5_Witness ==
    /\ lastOp.op = "addSong"
    /\ returned
    /\ areCompatible(getSong(songs, lastOp.id).genres, getSong(songs, lastOp.id).genres)
    /\ lastOp.id \in DOMAIN connections

\* the tracks that can carry the identifier id in the current state: the
\* stored one if the collection holds id, any input track otherwise
TracksWithId(songMap, id) ==
    IF MapHas(songMap, id)
    THEN {getSong(songMap, id)}
    ELSE {[id |-> id, genres |-> g] : g \in GenreLists}

\* addSong(first) followed by addSong(second)
AddBoth(songMap, connMap, first, second) ==
    LET r1 == addSong(songMap, connMap, first)
    IN  addSong(r1.songs, r1.connections, second)

\* C6: for two tracks A and B with compatible genre lists, adding A then B
\* and adding B then A from the same collection state both end with
\* areConnected(A, B) and areConnected(B, A) true and with equal connection
\* relations.  A and B are two tracks, so their identifiers differ, and an
\* identifier the collection already holds names that same track.
C6_EitherOrderConnects ==
    \A i \in 1..NumIds : \A j \in (i + 1)..NumIds :
        \A A \in TracksWithId(songs, IdTable[i]) :
            \A B \in TracksWithId(songs, IdTable[j]) :
                (\/ <<A.genres, B.genres>> \in CompatibleLists
                 \/ <<B.genres, A.genres>> \in CompatibleLists) =>
                    LET ab == AddBoth(songs, connections, A, B).connections
                        ba == AddBoth(songs, connections, B, A).connections
                    IN  /\ areConnected(ab, A.id, B.id)
                        /\ areConnected(ab, B.id, A.id)
                        /\ areConnected(ba, A.id, B.id)
                        /\ areConnected(ba, B.id, A.id)
                        /\ SameRelation(ab, ba)

\* the last two tracks were added to a collection that already held a track
\* compatible with both, and are connected to each other and to it
C6_Witness ==
    /\ lastOp.op = "addSong"
    /\ returned
    /\ Len(songs) = 3
    /\ songs[3].id = lastOp.id
    /\ areCompatible(songs[2].genres, songs[3].genres)
    /\ areConnected(connections, songs[2].id, songs[3].id)
    /\ areConnected(connections, songs[3].id, songs[2].id)
    /\ areConnected(connections, songs[1].id, songs[2].id)
    /\ areConnected(connections, songs[1].id, songs[3].id)
    /\ connections[songs[1].id] = <<songs[2].id, songs[3].id>>

\* C7: a successful addSong(t) changes the connection relation only by adding
\* edges incident to t: every pair of identifiers other than t, and so every
\* pair of tracks already in the collection, is connected after the call
\* exactly when it was before.
C7_AddKeepsOtherEdges ==
    [][(lastOp'.op = "addSong" /\ returned') =>
          /\ \A a \in Ids \ {lastOp'.id} : \A b \in Ids \ {lastOp'.id} :
                areConnected(connections', a, b) = areConnected(connections, a, b)
          /\ SongIds(songs) \subseteq Ids \ {lastOp'.id}
          /\ \A k \in Ids : Neighbours(connections, k) \subseteq Neighbours(connections', k)]_vars

C7_Witness ==
    /\ lastOp.op = "addSong"
    /\ returned
    /\ Len(songs) = 3
    /\ songs[3].id = lastOp.id
    /\ areConnected(connections, songs[1].id, songs[2].id)
    /\ areConnected(connections, songs[3].id, songs[1].id)
    /\ areConnected(connections, songs[3].id, songs[2].id)

\* C8: a successful removeSong(id) leaves the connections among the remaining
\* tracks as they were: every two identifiers other than id are connected
\* after the removal exactly when they were before.
C8_RemoveKeepsOtherEdges ==
    [][(lastOp'.op = "removeSong" /\ returned') =>
          \A a \in Ids \ {lastOp'.id} : \A b \in Ids \ {lastOp'.id} :
              areConnected(connections', a, b) = areConnected(connections, a, b)]_vars

\* two tracks remain, connected to each other, after a removal
C8_Witness ==
    /\ lastOp.op = "removeSong"
    /\ returned
    /\ Len(songs) = 2
    /\ areConnected(connections, songs[1].id, songs[2].id)
    /\ areConnected(connections, songs[2].id, songs[1].id)

\* C9: removeSong of an identifier that is not in the collection returns
\* false and leaves the songs map and the connection map as they were; the
\* duplicate addSong likewise reports its failure as the value false.
C9_MissingRemoveIsNoOp ==
    [][/\ (lastOp'.op = "removeSong" /\ ~MapHas(songs, lastOp'.id)) =>
              /\ returned' = FALSE
              /\ songs' = songs
              /\ connections' = connections
       /\ (lastOp'.op = "addSong" /\ MapHas(songs, lastOp'.id)) =>
              returned' = FALSE
       /\ returned' \in BOOLEAN]_vars

C9_Witness ==
    /\ lastOp.op = "removeSong"
    /\ returned = FALSE
    /\ ~MapHas(songs, lastOp.id)
    /\ Len(songs) >= 2
    /\ \E k \in DOMAIN connections : connections[k] # <<>>

\* C10: exportGraphNodes returns one node per track of the collection, in
\* the collection's order, so its length equals songCount, and every
\* identifier in a node's connections is the identifier of a track in the
\* collection at export time.
C10_ExportMatchesCollection ==
    lastOp.op = "exportGraphNodes" =>
        /\ Len(exported) = songCount(songs)
        /\ \A i \in 1..Len(exported) :
              /\ i <= Len(songs)
              /\ exported[i].id = songs[i].id
              /\ exported[i].song = songs[i]
              /\ \A c \in SeqToSet(exported[i].connections) : MapHas(songs, c)

C10_Witness ==
    /\ lastOp.op = "exportGraphNodes"
    /\ Len(exported) = 3
    /\ \E i \in 1..3 : Len(exported[i].connections) >= 1
    /\ \E i \in 1..3 : exported[i].connections = <<>>

\* ================================================================ layout
\* JavaScript numbers.  A number is a fraction num/den with den > 0, one of
\* the two infinities, or NaN; the arithmetic below is IEEE arithmetic with
\* exact fractions in place of rounded ones.
Fin(n) == [kind |-> "fin", num |-> n, den |-> 1]
Frac(n, d) == IF d < 0 THEN [kind |-> "fin", num |-> 0 - n, den |-> 0 - d]
              ELSE [kind |-> "fin", num |-> n, den |-> d]
NaN == [kind |-> "nan", num |-> 0, den |-> 1]
PosInfinity == [kind |-> "+inf", num |-> 0, den |-> 1]
NegInfinity == [kind |-> "-inf", num |-> 0, den |-> 1]
Undefined == [kind |-> "undefined", num |-> 0, den |-> 1]

\* x as a number: an attribute never written reads as undefined, which
\* arithmetic turns into NaN
ToNumber(a) == IF a.kind = "undefined" THEN NaN ELSE a

IsNaN(a) == ToNumber(a).kind = "nan"

\* a <= b for two numbers that are not NaN
Leq(a, b) ==
    CASE a.kind = "-inf" -> TRUE
      [] b.kind = "+inf" -> TRUE
      [] a.kind = "+inf" -> FALSE
      [] b.kind = "-inf" -> FALSE
      [] OTHER -> a.num * b.den <= b.num * a.den

MathMin(a, b) ==
    IF IsNaN(a) \/ IsNaN(b) THEN NaN ELSE IF Leq(a, b) THEN a ELSE b

MathMax(a, b) ==
    IF IsNaN(a) \/ IsNaN(b) THEN NaN ELSE IF Leq(a, b) THEN b ELSE a

Negate(a) ==
    CASE a.kind = "fin" -> Frac(0 - a.num, a.den)
      [] a.kind = "+inf" -> NegInfinity
      [] a.kind = "-inf" -> PosInfinity
      [] OTHER -> NaN

Plus(a, b) ==
    CASE IsNaN(a) \/ IsNaN(b) -> NaN
      [] a.kind = "fin" /\ b.kind = "fin" ->
            Frac(a.num * b.den + b.num * a.den, a.den * b.den)
      [] a.kind = "fin" -> b
      [] b.kind = "fin" -> a
      [] a.kind = b.kind -> a
      [] OTHER -> NaN

Minus(a, b) == Plus(a, Negate(ToNumber(b)))

Sign(a) ==
    CASE a.kind = "+inf" -> 1
      [] a.kind = "-inf" -> 0 - 1
      [] OTHER -> IF a.num > 0 THEN 1 ELSE IF a.num < 0 THEN 0 - 1 ELSE 0

Signed(sign) ==
    IF sign > 0 THEN PosInfinity ELSE IF sign < 0 THEN NegInfinity ELSE NaN

Times(a, b) ==
    CASE IsNaN(a) \/ IsNaN(b) -> NaN
      [] a.kind = "fin" /\ b.kind = "fin" -> Frac(a.num * b.num, a.den * b.den)
      [] OTHER -> Signed(Sign(a) * Sign(b))

Divide(a, b) ==
    CASE IsNaN(a) \/ IsNaN(b) -> NaN
      [] a.kind = "fin" /\ b.kind = "fin" ->
            IF b.num = 0 THEN Signed(Sign(a))
            ELSE Frac(a.num * b.den, a.den * b.num)
      [] a.kind = "fin" -> Fin(0)
      [] b.kind = "fin" -> Signed(Sign(a) * (IF Sign(b) < 0 THEN 0 - 1 ELSE 1))
      [] OTHER -> NaN

\* a || b: b when a is 0 or NaN
OrElse(a, b) ==
    IF IsNaN(a) \/ (a.kind = "fin" /\ a.num = 0) THEN b ELSE a

\* lo <= a <= hi; false of NaN
Within(a, lo, hi) == ~IsNaN(a) /\ Leq(Fin(lo), a) /\ Leq(a, Fin(hi))

\* ---- graphology's Graph, as buildGraph uses it: node keys in insertion
\* order with their x and y attributes, undirected edges as sets of end
\* points in insertion order, and whether the last call threw
NewGraph ==
    [nodes |-> <<>>, attrs |-> [k \in {} |-> Undefined], edges |-> <<>>,
     threw |-> FALSE]

hasNode(graph, key) == SetHas(graph.nodes, key)

hasEdge(graph, source, target) == SetHas(graph.edges, {source, target})

\* addNode throws on a key the graph already holds
addNode(graph, key) ==
    IF hasNode(graph, key) THEN [graph EXCEPT !.threw = TRUE]
    ELSE [graph EXCEPT
            !.nodes = Append(graph.nodes, key),
            !.attrs = [k \in DOMAIN graph.attrs \cup {key} |->
                         IF k = key THEN [x |-> Undefined, y |-> Undefined]
                         ELSE graph.attrs[k]]]

\* addEdge throws on an end point the graph does not hold and on an edge it
\* already holds
addEdge(graph, source, target) ==
    IF ~hasNode(graph, source) \/ ~hasNode(graph, target)
         \/ hasEdge(graph, source, target)
    THEN [graph EXCEPT !.threw = TRUE]
    ELSE [graph EXCEPT !.edges = Append(graph.edges, {source, target})]

setNodeAttributes(graph, key, x, y) ==
    [graph EXCEPT !.attrs[key] = [x |-> x, y |-> y]]

RECURSIVE addNodes(_, _, _)
addNodes(graph, nodes, i) ==
    IF i > Len(nodes) \/ graph.threw THEN graph
    ELSE addNodes(addNode(graph, nodes[i].id), nodes, i + 1)

connect_uncaught(graph, source, targetId) == addEdge(graph, source, targetId)

\* one connection of one node: skipped when the edge exists, and a failing
\* addEdge is caught
connect(graph, source, targetId) ==
    IF hasEdge(graph, source, targetId) THEN graph
    ELSE LET added == addEdge(graph, source, targetId)
         IN  IF added.threw THEN graph ELSE added

RECURSIVE addConnections(_, _, _, _)
addConnections(graph, nodes, i, j) ==
    IF i > Len(nodes) \/ graph.threw THEN graph
    ELSE IF j > Len(nodes[i].connections) THEN addConnections(graph, nodes, i + 1, 1)
    ELSE addConnections(connect(graph, nodes[i].id, nodes[i].connections[j]),
                        nodes, i, j + 1)

buildGraph(nodes) ==
    LET withNodes == addNodes(NewGraph, nodes, 1)
    IN  IF withNodes.threw THEN withNodes
        ELSE addConnections(withNodes, nodes, 1, 1)

\* ---- forceAtlas2.assign(graph, settings): the simulation is a library
\* outside the repository.  It throws, or it overwrites x and y of every node
\* with some number; which one is left open (sim.raw), NaN included.
assign(graph, sim) ==
    IF sim.throws THEN [graph EXCEPT !.threw = TRUE]
    ELSE [graph EXCEPT !.attrs = [k \in DOMAIN graph.attrs |-> sim.raw[k]]]

padding == 50
iterations == 500
quickIterations == 100

RECURSIVE forEachNode(_, _, _)
forEachNode(graph, i, acc) ==
    IF i > Len(graph.nodes) THEN acc
    ELSE LET attrs == graph.attrs[graph.nodes[i]]
         IN  forEachNode(graph, i + 1,
                 [minX |-> MathMin(acc.minX, ToNumber(attrs.x)),
                  maxX |-> MathMax(acc.maxX, ToNumber(attrs.x)),
                  minY |-> MathMin(acc.minY, ToNumber(attrs.y)),
                  maxY |-> MathMax(acc.maxY, ToNumber(attrs.y))])

range_raw(max, min) == Minus(max, min)

\* maxX - minX || 1
range(max, min) == OrElse(Minus(max, min), Fin(1))

normalize_unpadded(raw, min, rangeOfAxis, size) ==
    Times(Divide(Minus(raw, min), rangeOfAxis), Fin(size))

\* padding + ((raw - min) / range) * (size - 2 * padding)
normalize(raw, min, rangeOfAxis, size) ==
    Plus(Fin(padding),
         Times(Divide(Minus(raw, min), rangeOfAxis), Fin(size - 2 * padding)))

extractPositions_bare(graph, nodes, width, height) ==
    [i \in 1..Len(nodes) |->
        [id |-> nodes[i].id, song |-> nodes[i].song,
         x |-> normalize(graph.attrs[nodes[i].id].x, Fin(0), Fin(1), width),
         y |-> normalize(graph.attrs[nodes[i].id].y, Fin(0), Fin(1), height),
         connections |-> <<>>]]

extractPositions(graph, nodes, width, height) ==
    LET b == forEachNode(graph, 1,
                 [minX |-> PosInfinity, maxX |-> NegInfinity,
                  minY |-> PosInfinity, maxY |-> NegInfinity])
        rangeX == range(b.maxX, b.minX)
        rangeY == range(b.maxY, b.minY)
    IN  [i \in 1..Len(nodes) |->
            LET attrs == graph.attrs[nodes[i].id]
            IN  [nodes[i] EXCEPT
                    !.x = normalize(attrs.x, b.minX, rangeX, width),
                    !.y = normalize(attrs.y, b.minY, rangeY, height)]]

fallbackRandomLayout_unpadded(nodes, width, height, random) ==
    [i \in 1..Len(nodes) |->
        [nodes[i] EXCEPT
            !.x = Times(random[i].x, Fin(width)),
            !.y = Times(random[i].y, Fin(height))]]

\* random[i] holds the two values Math.random() gave for node i, each a
\* fraction in [0, 1)
fallbackRandomLayout(nodes, width, height, random) ==
    [i \in 1..Len(nodes) |->
        [nodes[i] EXCEPT
            !.x = Plus(Fin(padding), Times(random[i].x, Fin(width - 2 * padding))),
            !.y = Plus(Fin(padding), Times(random[i].y, Fin(height - 2 * padding)))]]

\* ---- the three layout operations.  Each returns what its caller observes:
\* outcome "returned" with the result, or "threw"; writes lists the values
\* it wrote to isCalculating, graph is the graph handed to the simulation,
\* budget the iteration count it was asked to run and raw the coordinates
\* the simulation left on the nodes.
Observed(op, outcome, result, caught, graph, budget, writes, raw) ==
    [op |-> op, outcome |-> outcome, result |-> result, caught |-> caught,
     graph |-> graph, budget |-> budget, writes |-> writes, raw |-> raw]

NoRaw == [k \in {} |-> Undefined]

calculatePositions_noCatch(nodes, width, height, sim, random) ==
    LET graph == buildGraph(nodes)
        laidOut == IF graph.threw THEN graph ELSE assign(graph, sim)
    IN  IF Len(nodes) = 0
        THEN Observed("calculatePositions", "returned", <<>>, FALSE, NewGraph,
                      0, <<>>, NoRaw)
        ELSE IF laidOut.threw
        THEN Observed("calculatePositions", "threw", <<>>, FALSE, graph,
                      iterations, <<TRUE, FALSE>>, NoRaw)
        ELSE Observed("calculatePositions", "returned",
                      extractPositions(laidOut, nodes, width, height), FALSE,
                      graph, iterations, <<TRUE, FALSE>>, laidOut.attrs)

calculatePositions(nodes, width, height, sim, random) ==
    LET graph == buildGraph(nodes)
        laidOut == IF graph.threw THEN graph ELSE assign(graph, sim)
    IN  IF Len(nodes) = 0
        THEN Observed("calculatePositions", "returned", <<>>, FALSE, NewGraph,
                      0, <<>>, NoRaw)
        ELSE IF laidOut.threw
        THEN Observed("calculatePositions", "returned",
                      fallbackRandomLayout(nodes, width, height, random), TRUE,
                      graph, iterations, <<TRUE, FALSE>>, NoRaw)
        ELSE Observed("calculatePositions", "returned",
                      extractPositions(laidOut, nodes, width, height), FALSE,
                      graph, iterations, <<TRUE, FALSE>>, laidOut.attrs)

RECURSIVE seedPositions(_, _, _)
seedPositions(graph, existingNodes, i) ==
    IF i > Len(existingNodes) THEN graph
    ELSE seedPositions(setNodeAttributes(graph, existingNodes[i].id,
                                         existingNodes[i].x, existingNodes[i].y),
                       existingNodes, i + 1)

updateWithNewNodes(existingNodes, newNodes, width, height, sim) ==
    LET allNodes == existingNodes \o newNodes
        graph == buildGraph(allNodes)
        seeded == seedPositions(graph, existingNodes, 1)
        laidOut == assign(seeded, sim)
    IN  IF graph.threw
        THEN Observed("updateWithNewNodes", "threw", <<>>, FALSE, graph, 0,
                      <<>>, NoRaw)
        ELSE IF laidOut.threw
        THEN Observed("updateWithNewNodes", "threw", <<>>, FALSE, seeded,
                      quickIterations, <<>>, NoRaw)
        ELSE Observed("updateWithNewNodes", "returned",
                      extractPositions(laidOut, allNodes, width, height), FALSE,
                      seeded, quickIterations, <<>>, laidOut.attrs)

\* ---- the arguments the layout operations are studied on
NumNodeLists == 5
NumCanvases == 3
NumRawPoints == 3
NumRandomPoints == 2

GraphNode(id, connectedIds, x, y) ==
    [id |-> id, song |-> [id |-> id, genres |-> <<>>], x |-> Fin(x),
     y |-> Fin(y), connections |-> connectedIds]

\* a single node; two nodes naming each other; a connection named on one
\* side only, twice, next to a target that is no node; the same id twice; a
\* node naming itself
NodeListTable ==
    << <<GraphNode("n1", <<>>, 70, 90)>>,
       <<GraphNode("n1", <<"n2">>, 70, 90), GraphNode("n2", <<"n1">>, 120, 60)>>,
       <<GraphNode("n2", <<"n1", "n9", "n1">>, 60, 60), GraphNode("n1", <<>>, 50, 50)>>,
       <<GraphNode("n1", <<"n1">>, 70, 90), GraphNode("n1", <<>>, 80, 80)>>,
       <<GraphNode("n3", <<"n3", "n1">>, 100, 100)>>,
       <<GraphNode("n4", <<"n3">>, 55, 65), GraphNode("n5", <<"n4", "n3">>, 75, 85)>> >>
NodeLists == {NodeListTable[i] : i \in 1..NumNodeLists}

\* width and height of the canvas
CanvasTable ==
    << [width |-> 240, height |-> 200], [width |-> 100, height |-> 100],
       [width |-> 60, height |-> 240], [width |-> 800, height |-> 600],
       [width |-> 240, height |-> 0] >>
Canvases == {CanvasTable[i] : i \in 1..NumCanvases}

\* the coordinates a simulation may leave on a node
RawPointTable ==
    << [x |-> Fin(0), y |-> Fin(0)], [x |-> Fin(3), y |-> Fin(0 - 2)],
       [x |-> NaN, y |-> NaN], [x |-> Frac(1, 2), y |-> Fin(7)],
       [x |-> Fin(0 - 5), y |-> NaN] >>
RawPoints == {RawPointTable[i] : i \in 1..NumRawPoints}

\* pairs of values of Math.random()
RandomPointTable ==
    << [x |-> Fin(0), y |-> Frac(1, 2)], [x |-> Frac(3, 4), y |-> Fin(0)],
       [x |-> Frac(1, 4), y |-> Frac(9, 10)], [x |-> Frac(1, 2), y |-> Frac(1, 2)] >>
RandomPoints == {RandomPointTable[i] : i \in 1..NumRandomPoints}

NoSim == [throws |-> TRUE, raw |-> [k \in {} |-> Undefined]]

\* what the simulation may do to a graph
SimOutcomes(graph) ==
    IF graph.threw THEN {NoSim}
    ELSE {NoSim} \cup
         {[throws |-> FALSE, raw |-> r] : r \in [SeqToSet(graph.nodes) -> RawPoints]}

LayoutInputs ==
    {[op |-> "calculatePositions", nodes |-> n, newNodes |-> <<>>,
      width |-> c.width, height |-> c.height] :
        n \in NodeLists \cup {<<>>}, c \in Canvases}
    \cup
    {[op |-> "updateWithNewNodes", nodes |-> e, newNodes |-> n,
      width |-> c.width, height |-> c.height] :
        e \in NodeLists \cup {<<>>}, n \in NodeLists \cup {<<>>}, c \in Canvases}

InitLayout ==
    /\ CollectionConstructed
    /\ GenreConstructed
    /\ ApiConstructed
    /\ isCalculating = FALSE
    /\ layoutIn \in LayoutInputs
    /\ layoutCall = NoCall
    /\ runs = <<>>

\* the value isCalculating holds after the writes of a call
AfterWrites(flag, writes) == IF writes = <<>> THEN flag ELSE writes[Len(writes)]

CalculatePositions ==
    /\ layoutIn.op = "calculatePositions"
    /\ layoutCall = NoCall
    /\ \E sim \in SimOutcomes(buildGraph(layoutIn.nodes)) :
       \E random \in [1..Len(layoutIn.nodes) -> RandomPoints] :
          LET r == calculatePositions(layoutIn.nodes, layoutIn.width,
                                      layoutIn.height, sim, random)
          IN  /\ layoutCall' = r
              /\ isCalculating' = AfterWrites(isCalculating, r.writes)
    /\ UNCHANGED <<layoutIn, runs, collectionVars, genreVars, apiVars>>

UpdateWithNewNodes ==
    /\ layoutIn.op = "updateWithNewNodes"
    /\ layoutCall = NoCall
    /\ \E sim \in SimOutcomes(buildGraph(layoutIn.nodes \o layoutIn.newNodes)) :
          LET r == updateWithNewNodes(layoutIn.nodes, layoutIn.newNodes,
                                      layoutIn.width, layoutIn.height, sim)
          IN  /\ layoutCall' = r
              /\ isCalculating' = AfterWrites(isCalculating, r.writes)
    /\ UNCHANGED <<layoutIn, runs, collectionVars, genreVars, apiVars>>

NextLayout == CalculatePositions \/ UpdateWithNewNodes

SpecLayout == InitLayout /\ [][NextLayout]_vars

\* ------------------------------------------------- properties of the layout
InputNodes(in) == in.nodes \o in.newNodes

\* a canvas that leaves room between the two paddings
Roomy(in) == in.width >= 2 * padding /\ in.height >= 2 * padding

InPaddedBounds(node, width, height) ==
    /\ Within(node.x, padding, width - padding)
    /\ Within(node.y, padding, height - padding)

AllInPaddedBounds(result, in) ==
    \A i \in 1..Len(result) : InPaddedBounds(result[i], in.width, in.height)

OnePerInputNode(result, nodes) ==
    /\ Len(result) = Len(nodes)
    /\ \A i \in 1..Len(nodes) : result[i].id = nodes[i].id

\* C11: no layout operation propagates a failure: a finished call has
\* returned, never thrown, and when a failure was absorbed on a roomy canvas
\* the result holds one position inside the padded bounds per input node
C11_NeverPropagates ==
    layoutCall # NoCall =>
        /\ layoutCall.outcome = "returned"
        /\ (layoutCall.caught /\ Roomy(layoutIn)) =>
              /\ OnePerInputNode(layoutCall.result, InputNodes(layoutIn))
              /\ AllInPaddedBounds(layoutCall.result, layoutIn)

\* C12: calculatePositions on N >= 1 nodes returns exactly N nodes, each with
\* x in [padding, width - padding] and y in [padding, height - padding],
\* whatever coordinates the simulation left on the graph
C12_AlwaysInPaddedBounds ==
    (/\ layoutCall # NoCall
     /\ layoutCall.op = "calculatePositions"
     /\ Len(layoutIn.nodes) >= 1
     /\ Roomy(layoutIn)) =>
        /\ layoutCall.outcome = "returned"
        /\ OnePerInputNode(layoutCall.result, layoutIn.nodes)
        /\ AllInPaddedBounds(layoutCall.result, layoutIn)

\* calculatePositions absorbed a failure and answered with the fallback
FellBack == layoutCall # NoCall /\ layoutCall.op = "calculatePositions" /\ layoutCall.caught

\* C13 as stated: whenever calculatePositions catches a failure it returns one
\* node per input node, each inside the padded bounds, on every canvas
C13_FallbackInBoundsEveryCanvas ==
    FellBack =>
        /\ OnePerInputNode(layoutCall.result, layoutIn.nodes)
        /\ AllInPaddedBounds(layoutCall.result, layoutIn)

\* C13: whenever calculatePositions catches a failure it returns one node per
\* input node, each inside the padded bounds, on every canvas whose width and
\* height are at least 2 * padding
C13_FallbackInBounds ==
    (FellBack /\ Roomy(layoutIn)) =>
        /\ OnePerInputNode(layoutCall.result, layoutIn.nodes)
        /\ AllInPaddedBounds(layoutCall.result, layoutIn)

\* a fallback for two nodes on a canvas wider than 2 * padding, one of the
\* nodes off the left padding line
C13_Witness ==
    /\ FellBack
    /\ layoutIn.width > 2 * padding
    /\ layoutIn.height > 2 * padding
    /\ Len(layoutCall.result) = 2
    /\ \E i \in 1..2 : ~Leq(layoutCall.result[i].x, Fin(padding))

\* the coordinates the simulation left on one axis, one per node of the graph
RawOnAxis(axis) ==
    {IF axis = "x" THEN layoutCall.raw[k].x ELSE layoutCall.raw[k].y :
        k \in DOMAIN layoutCall.raw}

\* a degenerate range: the simulation ran and every node has the same
\* number on that axis
Degenerate(axis) ==
    /\ layoutCall # NoCall
    /\ layoutCall.outcome = "returned"
    /\ DOMAIN layoutCall.raw # {}
    /\ \E v \in RawOnAxis(axis) : ~IsNaN(v) /\ RawOnAxis(axis) = {v}

MaxRuns == 1
NumStepCounts == 3
StepTable == <<1, 2, 3, 7, 50>>
StepCounts == {StepTable[i] : i \in 1..NumStepCounts}

\* a single node, the same id twice, no node
AnimatedNodeLists == {NodeListTable[1], NodeListTable[4], <<>>}

iterationsPerStep_floor(steps) == iterations \div steps

\* Math.ceil(this.layoutSettings.iterations / steps)
iterationsPerStep(steps) == (iterations + steps - 1) \div steps

NewRun(steps) ==
    [steps |-> steps, iterationsPerStep |-> iterationsPerStep(steps),
     currentStep |-> 0, done |-> 0, calls |-> 0, seen |-> 0, before |-> 0,
     status |-> "scheduled"]

ranSoFar_restart(run) == run.iterationsPerStep

\* forceAtlas2.assign(graph, {iterations: iterationsPerStep}) continues from
\* the positions the previous chunks left on the graph
ranSoFar(run) == run.done + run.iterationsPerStep

\* one frame of a run: a chunk of simulation, extractPositions, onStep, and
\* the request for the next frame or the end of the run
animate(run, simThrows, onStepThrows) ==
    LET ran == ranSoFar(run)
        called == [run EXCEPT !.done = ran, !.calls = run.calls + 1,
                              !.before = run.seen, !.seen = ran]
        stepped == [called EXCEPT !.currentStep = run.currentStep + 1]
    IN  IF simThrows THEN [run EXCEPT !.status = "threw"]
        ELSE IF onStepThrows THEN [called EXCEPT !.status = "threw"]
        ELSE IF stepped.currentStep < run.steps THEN stepped
        ELSE [stepped EXCEPT !.status = "finished"]

InitAnimated ==
    /\ CollectionConstructed
    /\ GenreConstructed
    /\ ApiConstructed
    /\ LayoutConstructed

CalculateAnimated ==
    /\ Len(runs) < MaxRuns
    /\ \E nodes \in AnimatedNodeLists, steps \in StepCounts :
          LET graph == buildGraph(nodes)
          IN  IF Len(nodes) = 0
              THEN /\ layoutCall' = Observed("calculateAnimated", "returned", <<>>,
                                             FALSE, NewGraph, 0, <<>>, NoRaw)
                   /\ UNCHANGED <<isCalculating, runs>>
              ELSE /\ isCalculating' = TRUE
                   /\ IF graph.threw
                      THEN /\ layoutCall' = Observed("calculateAnimated", "threw",
                                                     <<>>, FALSE, graph, 0,
                                                     <<TRUE>>, NoRaw)
                           /\ UNCHANGED runs
                      ELSE /\ layoutCall' = Observed("calculateAnimated", "returned",
                                                     <<>>, FALSE, graph, 0,
                                                     <<TRUE>>, NoRaw)
                           /\ runs' = Append(runs, NewRun(steps))
    /\ UNCHANGED <<layoutIn, collectionVars, genreVars, apiVars>>

\* the browser runs the frame a run has requested
Animate ==
    /\ \E i \in 1..Len(runs) :
          /\ runs[i].status = "scheduled"
          /\ \E simThrows \in BOOLEAN, onStepThrows \in BOOLEAN :
                LET after == animate(runs[i], simThrows, onStepThrows)
                IN  /\ runs' = [runs EXCEPT ![i] = after]
                    /\ isCalculating' =
                          IF after.status = "finished" THEN FALSE ELSE isCalculating
    /\ UNCHANGED <<layoutIn, layoutCall, collectionVars, genreVars, apiVars>>

\* a calculatePositions call made while runs may be waiting for a frame
CalculatePositionsMeanwhile ==
    /\ \E nodes \in {NodeListTable[1], <<>>} :
       \E sim \in SimOutcomes(buildGraph(nodes)) :
       \E random \in [1..Len(nodes) -> RandomPoints] :
          LET r == calculatePositions(nodes, CanvasTable[1].width,
                                      CanvasTable[1].height, sim, random)
          IN  /\ layoutCall' = r
              /\ isCalculating' = AfterWrites(isCalculating, r.writes)
    /\ UNCHANGED <<layoutIn, runs, collectionVars, genreVars, apiVars>>

NextAnimated == CalculateAnimated \/ Animate \/ CalculatePositionsMeanwhile

SpecAnimated == InitAnimated /\ [][NextAnimated]_vars

\* the same program when the browser keeps running the frames that
\* requestAnimationFrame has requested
SpecAnimatedFair == InitAnimated /\ [][NextAnimated]_vars /\ WF_vars(Animate)

\* ------------------------------------------ properties of the animated layout
\* every step count up to twice the iteration budget gets a chunk of at least
\* one iteration
StepBudgetsPositive ==
    \A steps \in 1..(2 * iterations) : iterationsPerStep(steps) >= 1

\* C15: the onStep calls of an animated layout come one at a time, each in a
\* frame of its own, and the iteration total behind each call is strictly
\* greater than the total behind the call before it, for every step count >= 1
C15_CallbacksInOrder ==
    [][/\ StepBudgetsPositive
       /\ \A i \in 1..Len(runs) :
             \/ runs'[i].calls = runs[i].calls
             \/ /\ runs'[i].calls = runs[i].calls + 1
                /\ runs[i].status = "scheduled"
                /\ runs'[i].before = runs[i].seen
                /\ runs'[i].seen > runs[i].seen
                /\ \A j \in 1..Len(runs) : j # i => runs'[j] = runs[j]]_vars

\* a run of three steps that has made all its three onStep calls
C15_Witness ==
    \E i \in 1..Len(runs) :
        /\ runs[i].steps = 3
        /\ runs[i].calls = 3
        /\ runs[i].status = "finished"
        /\ runs[i].seen = 3 * iterationsPerStep(3)

\* an animated layout is in flight while its next frame is requested
InFlight(run) == run.status = "scheduled"

\* C16: isCalculating is true whenever a layout computation is in flight, in
\* particular between the chunks of an animated layout, whatever other layout
\* call started and finished meanwhile
C16_BusyWhileInFlight ==
    (\E i \in 1..Len(runs) : InFlight(runs[i])) => isCalculating = TRUE

\* -------------------------------------------------- properties of buildGraph
NodeIds(nodes) == {nodes[i].id : i \in 1..Len(nodes)}

DistinctIds(nodes) == Cardinality(NodeIds(nodes)) = Len(nodes)

\* the unordered pairs {a, b} with b listed in a's connections and both of
\* them input nodes
ListedPairs(nodes) ==
    UNION {{{nodes[i].id, nodes[i].connections[j]} :
               j \in 1..Len(nodes[i].connections)} : i \in 1..Len(nodes)}
    \cap {{a, b} : a \in NodeIds(nodes), b \in NodeIds(nodes)}

\* C17: for input nodes with distinct ids buildGraph does not fail, the
\* nodes of its graph are exactly the input nodes, and its edges are exactly
\* the unordered pairs {a, b} of input nodes with b listed in a's connections
\* or a in b's, each once; a connection to an id that is no input node is
\* skipped
C17_GraphMatchesInput ==
    (layoutCall # NoCall /\ DistinctIds(InputNodes(layoutIn))) =>
        /\ layoutCall.graph.threw = FALSE
        /\ layoutCall.graph.nodes =
              [i \in 1..Len(InputNodes(layoutIn)) |-> InputNodes(layoutIn)[i].id]
        /\ SeqToSet(layoutCall.graph.edges) = ListedPairs(InputNodes(layoutIn))
        /\ Cardinality(SeqToSet(layoutCall.graph.edges)) = Len(layoutCall.graph.edges)

\* three input nodes: one names another twice and an id that is no node, one
\* names itself and a node that does not name it back
C17_Witness ==
    /\ layoutCall # NoCall
    /\ DistinctIds(InputNodes(layoutIn))
    /\ Len(InputNodes(layoutIn)) = 3
    /\ \E i \in 1..3 : "n9" \in SeqToSet(InputNodes(layoutIn)[i].connections)
    /\ SeqToSet(layoutCall.graph.edges) = {{"n1", "n2"}, {"n3"}, {"n1", "n3"}}

\* ================================================================ catalog
\* Time is counted in minutes.  A token is the number of the token request
\* that obtained it, 0 is null.  A request to api.spotify.com is sent in the
\* same turn in which authenticate() emits; its header is the token the
\* interceptor put on it, 0 when it put none, NotSent before it is sent.
BUFFER_TIME == 1
MaxTime == 2
MaxLookups == 2
MaxRefreshes == 1

\* the expires_in values, in minutes, the token endpoint may answer with
ExpiresIn == {BUFFER_TIME, BUFFER_TIME + 1, 60}

Unknown == <<"u", "n", "k", "n", "o", "w", "n">>

\* the genres the artist endpoint may answer with
ArtistGenres == {<<Rock>>, <<Rock, Metal>>, <<>>}

NotSent == 0 - 1

isTokenValid(state, time) ==
    state.token # 0 /\ time < state.expiresAt - BUFFER_TIME

\* authenticate(): the stage a pipeline waits in after subscribing to it,
\* "token" when a token request had to be sent
authenticate(state, time, next) == IF isTokenValid(state, time) THEN next ELSE "token"

tokenStored_untimed(token, time, expiresIn) ==
    [token |-> token, expiresAt |-> expiresIn]

\* requestNewToken, tap: the answer's token with expiresAt = Date.now() +
\* expires_in
tokenStored(token, time, expiresIn) ==
    [token |-> token, expiresAt |-> time + expiresIn]

\* requestNewToken, catchError: the token state is reset
tokenCleared == [token |-> 0, expiresAt |-> 0]

spotifyAuthInterceptor_whenValid(state, time) ==
    IF isTokenValid(state, time) THEN state.token ELSE 0

\* the Authorization header the interceptor puts on a request to
\* api.spotify.com: the stored token if there is one
spotifyAuthInterceptor(state, time) == IF state.token # 0 THEN state.token ELSE 0

\* the header of the request a pipeline sends when its authenticate() emits at
\* once; nothing is sent while it waits for a token
headerNow(state, time) ==
    IF isTokenValid(state, time) THEN spotifyAuthInterceptor(state, time) ELSE NotSent

RECURSIVE Sum(_)
Sum(seq) == IF seq = <<>> THEN 0 ELSE seq[1] + Sum(Tail(seq))

\* the tracks a search may answer with, each given by its number of artists
TrackShapes ==
    {s \in UNION {[1..n -> 1..MaxLookups] : n \in 0..MaxLookups} :
        Sum(s) <= MaxLookups}

RECURSIVE flat(_)
flat(arrays) == IF arrays = <<>> THEN <<>> ELSE arrays[1] \o flat(Tail(arrays))

RECURSIVE newSet(_)
newSet(seq) ==
    IF seq = <<>> THEN <<>>
    ELSE SetAdd(newSet(SubSeq(seq, 1, Len(seq) - 1)), seq[Len(seq)])

withUnknown_never(allGenres) == allGenres

\* allGenres.length > 0 ? allGenres : ['unknown']
withUnknown(allGenres) == IF Len(allGenres) > 0 THEN allGenres ELSE <<Unknown>>

\* what the artist endpoint may do: answer with genres, or fail
ArtistAnswers ==
    [failed : {FALSE}, genres : ArtistGenres] \cup {[failed |-> TRUE, genres |-> <<>>]}

\* map(artist => artist.genres), catchError(() => of(['unknown']))
getArtistGenres(answer) == IF answer.failed THEN <<Unknown>> ELSE answer.genres

\* the song enrichTrackWithGenres emits once every artist lookup of the
\* track has answered
enrichTrackWithGenres(trackNo, lookups) ==
    LET mine == SelectSeq(lookups, LAMBDA l : l.track = trackNo)
    IN  [track |-> trackNo,
         genres |-> withUnknown(newSet(flat([i \in 1..Len(mine) |-> mine[i].genres])))]

\* a searchTracks subscription: where it waits, the number of its own token
\* request (0 if it sent none), the header of its search request, the artist
\* lookups, and what the subscriber was told
Subscription(state, time, sent) ==
    [op |-> "searchTracks", phase |-> authenticate(state, time, "search"),
     request |-> IF isTokenValid(state, time) THEN 0 ELSE sent + 1,
     header |-> headerNow(state, time), lookups |-> <<>>, tracks |-> 0,
     outcome |-> "pending", songs |-> <<>>]

\* getArtistGenres of every artist of every track, each starting with its
\* own authenticate()
StartLookups(shape, state, time, sent) ==
    LET trackOf == flat([t \in 1..Len(shape) |-> [a \in 1..shape[t] |-> t]])
    IN  [i \in 1..Len(trackOf) |->
            [track |-> trackOf[i],
             stage |-> authenticate(state, time, "artist"),
             request |-> IF isTokenValid(state, time) THEN 0 ELSE sent + i,
             header |-> headerNow(state, time),
             failed |-> FALSE,
             genres |-> <<>>]]

\* searchTracks(query) is subscribed to: authenticate() first, and the search
\* request at once if the stored token is valid
SearchTracks ==
    /\ search = NoCall
    /\ search' = Subscription(tokenState, now, tokenRequests)
    /\ tokenRequests' = IF isTokenValid(tokenState, now) THEN tokenRequests
                        ELSE tokenRequests + 1
    /\ UNCHANGED <<tokenState, now, refreshes, collectionVars, layoutVars, genreVars>>

\* requestNewToken: the answer to the token request of searchTracks.  A
\* token is stored and the search request is sent; a failure clears the token
\* state and is rethrown, and nothing of searchTracks catches it
TokenResponse ==
    /\ search # NoCall
    /\ search.phase = "token"
    /\ \/ \E expiresIn \in ExpiresIn :
            LET stored == tokenStored(search.request, now, expiresIn)
            IN  /\ tokenState' = stored
                /\ search' = [search EXCEPT
                                !.phase = "search",
                                !.header = spotifyAuthInterceptor(stored, now)]
       \/ /\ tokenState' = tokenCleared
          /\ search' = [search EXCEPT !.phase = "done", !.outcome = "error"]
    /\ UNCHANGED <<now, tokenRequests, refreshes, collectionVars, layoutVars, genreVars>>

\* the answer to the search request: a failure and an empty answer emit the
\* empty list; otherwise every artist of every track is looked up
SearchResponse ==
    /\ search # NoCall
    /\ search.phase = "search"
    /\ \/ /\ search' = [search EXCEPT !.phase = "done", !.outcome = "emitted"]
          /\ UNCHANGED tokenRequests
       \/ \E shape \in TrackShapes :
            LET lookups == StartLookups(shape, tokenState, now, tokenRequests)
            IN  /\ search' =
                      IF shape = <<>>
                      THEN [search EXCEPT !.phase = "done", !.outcome = "emitted"]
                      ELSE [search EXCEPT !.phase = "genres", !.lookups = lookups,
                                          !.tracks = Len(shape)]
                /\ tokenRequests' =
                      IF isTokenValid(tokenState, now) THEN tokenRequests
                      ELSE tokenRequests + Len(lookups)
    /\ UNCHANGED <<tokenState, now, refreshes, collectionVars, layoutVars, genreVars>>

\* the answer to the token request of one artist lookup: the artist request
\* is sent; a failure fails the forkJoin and is caught by the catchError of
\* the search request
LookupTokenResponse ==
    /\ search # NoCall
    /\ search.phase = "genres"
    /\ \E i \in 1..Len(search.lookups) :
          /\ search.lookups[i].stage = "token"
          /\ \/ \E expiresIn \in ExpiresIn :
                  LET stored == tokenStored(search.lookups[i].request, now, expiresIn)
                  IN  /\ tokenState' = stored
                      /\ search' = [search EXCEPT
                                      !.lookups[i].stage = "artist",
                                      !.lookups[i].header =
                                          spotifyAuthInterceptor(stored, now)]
             \/ /\ tokenState' = tokenCleared
                /\ search' = [search EXCEPT !.phase = "done", !.outcome = "emitted"]
    /\ UNCHANGED <<now, tokenRequests, refreshes, collectionVars, layoutVars, genreVars>>

\* the answer to one artist request: its genres, or ['unknown'] on failure;
\* the last answer completes every forkJoin and the songs are emitted
ArtistResponse ==
    /\ search # NoCall
    /\ search.phase = "genres"
    /\ \E i \in 1..Len(search.lookups) :
          /\ search.lookups[i].stage = "artist"
          /\ \E answer \in ArtistAnswers :
                LET answered == [search.lookups EXCEPT
                                    ![i].stage = "done",
                                    ![i].failed = answer.failed,
                                    ![i].genres = getArtistGenres(answer)]
                IN  search' =
                       IF \A k \in 1..Len(answered) : answered[k].stage = "done"
                       THEN [search EXCEPT
                               !.lookups = answered, !.phase = "done",
                               !.outcome = "emitted",
                               !.songs = [t \in 1..search.tracks |->
                                            enrichTrackWithGenres(t, answered)]]
                       ELSE [search EXCEPT !.lookups = answered]
    /\ UNCHANGED <<tokenState, now, tokenRequests, refreshes, collectionVars, layoutVars, genreVars>>

\* forceRefresh() is subscribed to: a token request whatever the token state
ForceRefresh ==
    /\ refreshes.made < MaxRefreshes
    /\ tokenRequests' = tokenRequests + 1
    /\ refreshes' = [made |-> refreshes.made + 1,
                     pending |-> refreshes.pending \cup {tokenRequests + 1}]
    /\ UNCHANGED <<tokenState, now, search, collectionVars, layoutVars, genreVars>>

\* the answer to the token request of a forceRefresh()
RefreshResponse ==
    /\ \E request \in refreshes.pending :
          /\ refreshes' = [refreshes EXCEPT !.pending = refreshes.pending \ {request}]
          /\ \/ \E expiresIn \in ExpiresIn :
                  tokenState' = tokenStored(request, now, expiresIn)
             \/ tokenState' = tokenCleared
    /\ UNCHANGED <<now, tokenRequests, search, collectionVars, layoutVars, genreVars>>

\* a minute passes
Tick ==
    /\ now < MaxTime
    /\ now' = now + 1
    /\ UNCHANGED <<tokenState, tokenRequests, search, refreshes, collectionVars, layoutVars, genreVars>>

InitCatalog ==
    /\ CollectionConstructed
    /\ LayoutConstructed
    /\ GenreConstructed
    /\ ApiConstructed

NextCatalog ==
    \/ SearchTracks
    \/ TokenResponse
    \/ SearchResponse
    \/ LookupTokenResponse
    \/ ArtistResponse
    \/ ForceRefresh
    \/ RefreshResponse
    \/ Tick

SpecCatalog == InitCatalog /\ [][NextCatalog]_vars

\* C18: whatever fails behind searchTracks (authentication, the search
\* request, the network), the subscriber is never told an error; the failure
\* reaches it as an emitted list
C18_FailuresNeverReachSubscriber ==
    search # NoCall => search.outcome \in {"pending", "emitted"}

\* ========================================================== genre service
\* the genre lists areCompatible is studied on: every list of at most
\* MaxGenres genres, the empty string among the genres
MaxGenres == 2
GenreNames == {Rock, RockCaps, IndieRock, Jazz, <<>>}
StudiedGenreLists == UNION {[1..n -> GenreNames] : n \in 0..MaxGenres}

InitGenre ==
    /\ CollectionConstructed
    /\ LayoutConstructed
    /\ ApiConstructed
    /\ genreIn \in [genres1 : StudiedGenreLists, genres2 : StudiedGenreLists]
    /\ genreOut = NoCall

\* areCompatible is asked about the two lists, in both orders
AreCompatible ==
    /\ genreOut = NoCall
    /\ genreOut' = [op |-> "areCompatible",
                    result |-> areCompatible(genreIn.genres1, genreIn.genres2),
                    swapped |-> areCompatible(genreIn.genres2, genreIn.genres1)]
    /\ UNCHANGED <<genreIn, collectionVars, layoutVars, apiVars>>

NextGenre == AreCompatible

SpecGenre == InitGenre /\ [][NextGenre]_vars

\* ------------------------------------------- properties of the genre service
\* two characters that are the same letter, whatever their case
SameLetter(c, d) ==
    c = d \/ {c, d} \in {{"R", "r"}, {"O", "o"}, {"C", "c"}, {"K", "k"}}

\* sub occurs in str as a run of consecutive characters, case ignored
OccursIn(sub, str) ==
    \E start \in 0..(Len(str) - Len(sub)) :
        \A k \in 1..Len(sub) : SameLetter(str[start + k], sub[k])

\* C19: areCompatible(g1, g2) is true exactly when some genre of g1 and some
\* genre of g2 are such that one, lower-cased, is a substring of the other;
\* so the answer is the same in either order of the lists, and an empty list
\* is compatible with nothing
C19_CompatibleIffSubstringPair ==
    genreOut # NoCall =>
        /\ genreOut.result =
              (\E a \in SeqToSet(genreIn.genres1), b \in SeqToSet(genreIn.genres2) :
                  OccursIn(a, b) \/ OccursIn(b, a))
        /\ genreOut.swapped = genreOut.result
        /\ (genreIn.genres1 = <<>> \/ genreIn.genres2 = <<>>) => genreOut.result = FALSE

\* a list whose second genre, in capitals, occurs inside a genre of the other
\* list, found compatible
C19_Witness ==
    /\ genreOut # NoCall
    /\ genreIn.genres1 = <<Jazz, RockCaps>>
    /\ genreIn.genres2 = <<IndieRock>>
    /\ genreOut.result = TRUE

\* C20: updateWithNewNodes hands the simulation a graph with every existing
\* node at its input (x, y), asks for the 100-iteration budget over existing
\* and new nodes together, and returns exactly one node per input node,
\* existing nodes first, each inside the padded bounds
C20_UpdateKeepsAndPlaces ==
    (/\ layoutCall # NoCall
     /\ layoutCall.op = "updateWithNewNodes"
     /\ DistinctIds(InputNodes(layoutIn))
     /\ Roomy(layoutIn)) =>
        /\ \A i \in 1..Len(layoutIn.nodes) :
              layoutCall.graph.attrs[layoutIn.nodes[i].id] =
                 [x |-> layoutIn.nodes[i].x, y |-> layoutIn.nodes[i].y]
        /\ layoutCall.budget = quickIterations
        /\ SeqToSet(layoutCall.graph.nodes) = NodeIds(InputNodes(layoutIn))
        /\ layoutCall.outcome = "returned"
        /\ OnePerInputNode(layoutCall.result, layoutIn.nodes \o layoutIn.newNodes)
        /\ AllInPaddedBounds(layoutCall.result, layoutIn)

\* C21: calculatePositions hands back the input nodes in their order with
\* only x and y changed (id, song and connections of output node i are those
\* of input node i), and the caller's node objects, their x and y included,
\* are what they were before the call
C21_OnlyPositionsChange ==
    [][/\ layoutIn' = layoutIn
       /\ layoutCall'.op = "calculatePositions" =>
             /\ layoutCall'.outcome = "returned"
             /\ Len(layoutCall'.result) = Len(layoutIn.nodes)
             /\ \A i \in 1..Len(layoutIn.nodes) :
                   [layoutCall'.result[i] EXCEPT !.x = layoutIn.nodes[i].x,
                                                 !.y = layoutIn.nodes[i].y]
                      = layoutIn.nodes[i]]_vars

\* a simulated layout of two nodes that name each other, the first moved
\* away from where the caller had it
C21_Witness ==
    /\ layoutCall # NoCall
    /\ layoutCall.op = "calculatePositions"
    /\ ~layoutCall.caught
    /\ Len(layoutCall.result) = 2
    /\ layoutCall.result[1].connections = <<"n2">>
    /\ layoutCall.result[2].connections = <<"n1">>
    /\ layoutCall.result[1].x # layoutIn.nodes[1].x


\* the genres the artists of a track answered with, failed requests left out
GenreData(trackNo, lookups) ==
    UNION {SeqToSet(lookups[i].genres) :
              i \in {k \in 1..Len(lookups) :
                        lookups[k].track = trackNo /\ ~lookups[k].failed}}

\* C22: every Song the catalog client emits has a non-empty, duplicate-free
\* genre list that is the union of the genres of all its artists, and
\* "unknown" is in it only as the single tag of a track none of whose
\* artists yielded genre data, also when only some artist requests failed.
C22_GenresAreUnionOrUnknown ==
    (search # NoCall /\ search.outcome = "emitted") =>
        \A t \in 1..Len(search.songs) :
            LET genres == search.songs[t].genres
                data == GenreData(t, search.lookups)
            IN  /\ Len(genres) > 0
                /\ Cardinality(SeqToSet(genres)) = Len(genres)
                /\ IF data = {} THEN genres = <<Unknown>>
                                ELSE SeqToSet(genres) = data
                /\ Unknown \in SeqToSet(genres) =>
                      genres = <<Unknown>> /\ data = {}


\* ------------------------------------------------ the end of an animated run
\* step count times chunk size is at least the configured iterations and
\* less than a step count more, for every step count up to twice the budget
ChunksCoverBudget ==
    \A s \in 1..(2 * iterations) :
        /\ s * iterationsPerStep(s) >= iterations
        /\ s * iterationsPerStep(s) < iterations + s

\* a run that has ended has made exactly steps onStep calls and has run
\* steps * ceil(iterations / steps) iterations
EndedAsConfigured(run) ==
    run.status = "finished" =>
        /\ run.calls = run.steps
        /\ run.currentStep = run.steps
        /\ run.done = run.steps * ((iterations + run.steps - 1) \div run.steps)
        /\ run.done >= iterations
        /\ run.done < iterations + run.steps

\* C23: when frames keep being run, a calculateAnimated run on a non-empty
\* node list comes to an end; if nothing threw it has ended after exactly
\* steps onStep calls and steps * ceil(500 / steps) iterations, which is at
\* least 500 and less than 500 + steps.
C23_EndsAfterStepsCallbacks ==
    /\ [](ChunksCoverBudget /\ \A i \in 1..Len(runs) : EndedAsConfigured(runs[i]))
    /\ \A i \in 1..MaxRuns :
          (Len(runs) >= i /\ runs[i].status = "scheduled" /\ runs[i].calls = 0)
             ~> (Len(runs) >= i /\ runs[i].status \in {"finished", "threw"})

\* a run of three steps that has ended after 3 * 167 = 501 iterations
C23_Witness ==
    \E i \in 1..Len(runs) :
        /\ runs[i].status = "finished"
        /\ runs[i].steps = 3
        /\ runs[i].done = iterations + 1
        /\ runs[i].calls = 3


\* C24: whenever a layout operation has set isCalculating to true it becomes
\* false again, when frames keep being run, also when graph construction, a
\* simulation chunk or the onStep callback throws during calculateAnimated.
C24_BusyEventuallyEnds == isCalculating = TRUE ~> isCalculating = FALSE


\* ------------------------------------------------------- token reuse
\* a token is stored and the time is more than BUFFER_TIME before expiresAt
StoredAndFresh ==
    tokenState.token # 0 /\ now < tokenState.expiresAt - BUFFER_TIME

\* the authenticate() of a pipeline at a step: it emitted the stored token at
\* once and sent no token request, or it sent a token request of its own
Reused(pipeline) ==
    /\ pipeline.request = 0
    /\ pipeline.header = tokenState.token
Requested(pipeline, phase) ==
    /\ phase = "token"
    /\ pipeline.request \in (tokenRequests + 1)..tokenRequests'
    /\ pipeline.header = NotSent

\* C25: authenticate() emits the stored token without a token request if and
\* only if a token is stored and the time is more than 60 seconds before its
\* expiresAt; otherwise it sends a new token request, and a successful
\* answer stores the new token with expiresAt = answer time + expires_in.
C25_ReuseIffStoredAndFresh ==
    [][/\ (search = NoCall /\ search' # NoCall) =>
             IF StoredAndFresh
             THEN Reused(search') /\ tokenRequests' = tokenRequests
             ELSE Requested(search', search'.phase)
                     /\ tokenRequests' = tokenRequests + 1
       /\ (search # NoCall /\ search.phase = "search" /\ search'.phase = "genres") =>
             /\ \A i \in 1..Len(search'.lookups) :
                   IF StoredAndFresh
                   THEN Reused(search'.lookups[i])
                   ELSE Requested(search'.lookups[i], search'.lookups[i].stage)
             /\ tokenRequests' = IF StoredAndFresh THEN tokenRequests
                                 ELSE tokenRequests + Len(search'.lookups)
       /\ (tokenState' # tokenState /\ tokenState'.token # 0) =>
             /\ tokenState'.token \in 1..tokenRequests
             /\ tokenState'.expiresAt - now \in ExpiresIn]_vars

\* a search that reused a stored token, whose artist lookups, started after
\* the token had come within BUFFER_TIME of its expiry, each requested a new
\* one, the first of which has been stored
C25_Witness ==
    /\ search # NoCall
    /\ search.request = 0
    /\ search.header # 0
    /\ Len(search.lookups) = 2
    /\ search.lookups[1].request # 0
    /\ search.lookups[2].request # 0
    /\ tokenState.token = search.lookups[1].request


\* ------------------------------------------------ the Authorization header
\* the headers of the requests to api.spotify.com sent so far
SentHeaders ==
    IF search = NoCall THEN {}
    ELSE ({search.header}
            \cup {search.lookups[i].header : i \in 1..Len(search.lookups)})
         \ {NotSent}

\* a pipeline whose authenticate() has emitted has sent its request
SentOnceEmitted ==
    search # NoCall =>
        /\ search.phase \in {"search", "genres"} => search.header # NotSent
        /\ \A i \in 1..Len(search.lookups) :
              search.lookups[i].stage \in {"artist", "done"}
                 => search.lookups[i].header # NotSent

\* C26: in every interleaving of the token requests of authenticate() and
\* forceRefresh() and their answers, every request MusicApi sends to
\* api.spotify.com after its authenticate() has emitted carries a Bearer
\* header with a stored, non-null token; a token request failing after
\* another succeeded sends no catalog request out without the header.
C26_EveryCatalogRequestHasBearer ==
    /\ SentOnceEmitted
    /\ \A header \in SentHeaders : header \in 1..tokenRequests

\* the first artist request went out with the token its own token request
\* obtained, a forceRefresh() then failed and cleared the token state, and the
\* second artist lookup still waits for its token
C26_Witness ==
    /\ search # NoCall
    /\ search.phase = "genres"
    /\ Len(search.lookups) = 2
    /\ search.lookups[1].stage = "artist"
    /\ search.lookups[1].request # 0
    /\ search.lookups[1].header = search.lookups[1].request
    /\ search.lookups[2].stage = "token"
    /\ tokenState = tokenCleared
    /\ refreshes.made = 1
    /\ refreshes.pending = {}
====
